---- MODULE Spec2Model ----
(***************************************************************************)
(* The articy-rs traversal engine (Interpreter in src/src/lib.rs) over the *)
(* graph model of src/src/types.rs.  A state is one Interpreter: the       *)
(* loaded File (immutable), the Variable Store `state`, the `cursor`, and  *)
(* a record `last` of the most recent call (its arguments, the cursor and  *)
(* the store it started from, and what it returned).  `offer` is the       *)
(* choice the caller is facing: the targets of the WaitingForChoice it was *)
(* last given, until a call returns something else to it.                  *)
(***************************************************************************)
EXTENDS Integers, Sequences, FiniteSets, TLC

VARIABLES file, state, cursor, last, offer

vars == <<file, state, cursor, last, offer>>

(***************************************************************************)
(* Bounds of the explored graphs.                                          *)
(***************************************************************************)
\* the longest connection list put on one output pin
MaxConns == 2

(***************************************************************************)
(* Option<Id>::None for the cursor, and values of the Variable Store.      *)
(***************************************************************************)
NoId == "none"

Vars == {"flag"}

Undef == "undef"

Values == {"true", "false"}

EmptyStore == [v \in Vars |-> Undef]

(***************************************************************************)
(* The expression engine (evalexpr), by its contract: a boolean expression *)
(* evaluates to "true", "false" or "err"; a statement mutates the store or *)
(* fails and leaves it alone.  Expression texts are the ones the explored  *)
(* graphs carry.                                                           *)
(***************************************************************************)
eval_boolean_with_context(expression, st) ==
    CASE expression = "true" -> "true"
      [] expression = "false" -> "false"
      [] expression = "flag" -> IF st["flag"] \in Values THEN st["flag"] ELSE "err"
      [] expression = "!flag" ->
            IF st["flag"] = "true" THEN "false"
            ELSE IF st["flag"] = "false" THEN "true" ELSE "err"
      [] OTHER -> "err"

eval_with_context_mut(expression, st) ==
    CASE expression = "flag = true" -> [st EXCEPT !["flag"] = "true"]
      [] expression = "flag = false" -> [st EXCEPT !["flag"] = "false"]
      [] expression = "flag = !flag" ->
            IF st["flag"] = "true" THEN [st EXCEPT !["flag"] = "false"]
            ELSE IF st["flag"] = "false" THEN [st EXCEPT !["flag"] = "true"]
            ELSE st
      [] OTHER -> st

\* the statement returns Err: it reads a variable the store does not hold,
\* or it is not a statement the engine knows
eval_with_context_mut_fails(expression, st) ==
    CASE expression = "flag = true" -> FALSE
      [] expression = "flag = false" -> FALSE
      [] expression = "flag = !flag" -> st["flag"] \notin Values
      [] OTHER -> TRUE

(***************************************************************************)
(* types.rs: Connection, Pin, Model, Hierarchy.                            *)
(***************************************************************************)
Connection(target, target_pin) == [target |-> target, target_pin |-> target_pin]

Pin(id, text, connections) == [id |-> id, text |-> text, connections |-> connections]

Model(id, kind, parent, expression, input_pins, output_pins) ==
    [id |-> id, kind |-> kind, parent |-> parent, expression |-> expression,
     input_pins |-> input_pins, output_pins |-> output_pins]

\* Option<Vec<Hierarchy>>: has = FALSE is None
Children(items) == [has |-> TRUE, items |-> items]

NoChildren == [has |-> FALSE, items |-> <<>>]

Hierarchy(id, kind, children) == [id |-> id, kind |-> kind, children |-> children]

\* the variants whose input_pins()/output_pins() are Some
PinnedKinds == {"FlowFragment", "DialogueFragment", "Hub", "Dialogue", "Condition"}

\* the Instruction variant carries output_pins (lib.rs destructures it); its
\* accessors are not in types.rs
InstructionPinned == TRUE

has_pins(model) ==
    \/ model.kind \in PinnedKinds
    \/ (model.kind = "Instruction" /\ InstructionPinned)

(***************************************************************************)
(* models.iter().find(|model| model.id() == id)                            *)
(***************************************************************************)
has_model(f, id) == \E i \in 1..Len(f.models) : f.models[i].id = id

find_model(f, id) ==
    f.models[CHOOSE i \in 1..Len(f.models) :
                /\ f.models[i].id = id
                /\ \A j \in 1..(i - 1) : f.models[j].id # id]

has_pin(pins, id) == \E i \in 1..Len(pins) : pins[i].id = id

find_pin(pins, id) ==
    pins[CHOOSE i \in 1..Len(pins) :
            /\ pins[i].id = id
            /\ \A j \in 1..(i - 1) : pins[j].id # id]

(***************************************************************************)
(* What a call returns: Result<Outcome, Error>, Result<Vec<&Model>, Error>,*)
(* Result<&Model, Error> and Result<(), Error> in one record shape.  A     *)
(* model reference is written as the model's id.  "Panic" is a call that   *)
(* aborts (expect, todo!, unimplemented!), "Diverge" one that never        *)
(* returns.                                                                *)
(***************************************************************************)
Res(kind, node, targets, err) ==
    [kind |-> kind, node |-> node, targets |-> targets, err |-> err]

Err(error) == Res("Err", NoId, <<>>, error)

Ok == Res("Ok", NoId, <<>>, "")

OkModel(id) == Res("Ok", id, <<>>, "")

OkModels(ids) == Res("Ok", NoId, ids, "")

Advanced(id) == Res("Advanced", id, <<>>, "")

WaitingForChoice(ids) == Res("WaitingForChoice", NoId, ids, "")

EndOfDialogue == Res("EndOfDialogue", NoId, <<>>, "")

Panic == Res("Panic", NoId, <<>>, "")

Diverge == Res("Diverge", NoId, <<>>, "")

NoRes == Res("New", NoId, <<>>, "")

\* the interpreter's fields after a call, and what the call returned
Step(cur, st, res) == [cursor |-> cur, state |-> st, res |-> res]

RECURSIVE Flatten(_)
Flatten(seqs) == IF seqs = <<>> THEN <<>> ELSE Head(seqs) \o Flatten(Tail(seqs))

(***************************************************************************)
(* Interpreter::get_available_connections                                  *)
(***************************************************************************)
\* the gate with the empty text handed to the expression engine like any other
pin_open_without_empty_arm(text, st) == eval_boolean_with_context(text, st) = "true"

\* match target_pin.text.as_ref(): "" is open, else the expression decides,
\* an evaluation error closing the pin
pin_open(text, st) ==
    IF text = "" THEN TRUE ELSE eval_boolean_with_context(text, st) = "true"

\* the closure reading the target's first input pin instead of the named one
connection_filter_on_first_pin(f, st, connection) ==
    IF ~has_model(f, connection.target) THEN "skip"
    ELSE LET target_model == find_model(f, connection.target)
         IN  IF ~has_pins(target_model) THEN "panic"
             ELSE IF target_model.input_pins = <<>> THEN "skip"
             ELSE IF eval_boolean_with_context(Head(target_model.input_pins).text, st) = "true"
                     \/ Head(target_model.input_pins).text = ""
                  THEN "keep"
                  ELSE "skip"

\* the inner filter_map closure on one connection: "keep" (Some(target_model)),
\* "skip" (None) or "panic" (the expect on input_pins())
connection_filter(f, st, connection) ==
    IF ~has_model(f, connection.target) THEN "skip"
    ELSE LET target_model == find_model(f, connection.target)
         IN  IF ~has_pins(target_model) THEN "panic"
             ELSE IF ~has_pin(target_model.input_pins, connection.target_pin) THEN "skip"
             ELSE IF pin_open(find_pin(target_model.input_pins, connection.target_pin).text, st)
                  THEN "keep"
                  ELSE "skip"

\* the inner collect of one output pin: the targets kept, in connection order
pin_targets(f, st, pin) ==
    LET kept == SelectSeq(pin.connections,
                          LAMBDA c : connection_filter(f, st, c) = "keep")
    IN  [i \in 1..Len(kept) |-> kept[i].target]

\* the pins collected last pin first
collect_targets_reversed(f, st, output_pins) ==
    Flatten([i \in 1..Len(output_pins) |->
                pin_targets(f, st, output_pins[Len(output_pins) + 1 - i])])

\* flatten().collect() over the output pins, in pin order
collect_targets(f, st, output_pins) ==
    Flatten([i \in 1..Len(output_pins) |-> pin_targets(f, st, output_pins[i])])

pins_panic(f, st, output_pins) ==
    \E i \in 1..Len(output_pins) :
        \E j \in 1..Len(output_pins[i].connections) :
            connection_filter(f, st, output_pins[i].connections[j]) = "panic"

get_available_connections(f, st, model_id) ==
    IF ~has_model(f, model_id) THEN Err("NoModel")
    ELSE LET model == find_model(f, model_id)
         IN  IF ~has_pins(model) THEN Panic
             ELSE IF pins_panic(f, st, model.output_pins) THEN Panic
             ELSE OkModels(collect_targets(f, st, model.output_pins))

get_available_connections_at_cursor(f, cur, st) ==
    IF cur = NoId THEN Err("NoCursor") ELSE get_available_connections(f, st, cur)

(***************************************************************************)
(* Interpreter::get_current_model                                          *)
(***************************************************************************)
get_current_model(f, cur) ==
    IF cur = NoId THEN Err("NoCursor")
    ELSE IF ~has_model(f, cur) THEN Err("NoModel")
    ELSE OkModel(cur)

(***************************************************************************)
(* Interpreter::advance and Interpreter::post_advance.  `seen` is the set  *)
(* of Condition nodes this call has already evaluated: the store does not  *)
(* change between two Conditions of one call, so reaching one again means  *)
(* the recursion never ends.                                               *)
(***************************************************************************)
\* the first connection read for the id of its target pin, not of its target
first_pin_target_pin(output_pins) ==
    IF output_pins = <<>> THEN NoId
    ELSE IF Head(output_pins).connections = <<>> THEN NoId
    ELSE Head(Head(output_pins).connections).target_pin

\* output_pins.first()?.connections.first()?.target, NoId for the ? failing
first_pin_target(output_pins) ==
    IF output_pins = <<>> THEN NoId
    ELSE IF Head(output_pins).connections = <<>> THEN NoId
    ELSE Head(Head(output_pins).connections).target

\* output_pins.last()?.connections.first()?.target
last_pin_target(output_pins) ==
    IF output_pins = <<>> THEN NoId
    ELSE IF output_pins[Len(output_pins)].connections = <<>> THEN NoId
    ELSE Head(output_pins[Len(output_pins)].connections).target

\* waiting only from the third enabled target on
fragment_waits_above_two(connections) == connections > 2

\* the DialogueFragment arm's choice between waiting and moving
fragment_waits(connections) == connections > 1

\* where the DialogueFragment arm moves the cursor
fragment_target(output_pins) == first_pin_target(output_pins)

\* the Condition arm taking a failed evaluation for true
condition_result_true_on_error(expression, st) ==
    eval_boolean_with_context(expression, st) # "false"

\* the Condition arm: Ok(result) => result, _ => false
condition_result(expression, st) == eval_boolean_with_context(expression, st) = "true"

\* the Condition arm with its branches exchanged
condition_target_exchanged(result, output_pins) ==
    IF result THEN last_pin_target(output_pins) ELSE first_pin_target(output_pins)

\* where the Condition arm moves the cursor
condition_target(result, output_pins) ==
    IF result THEN first_pin_target(output_pins) ELSE last_pin_target(output_pins)

\* where the Instruction arm moves the cursor
instruction_target(output_pins) == first_pin_target(output_pins)

RECURSIVE advance(_, _, _, _)
RECURSIVE post_advance(_, _, _, _)

\* the Dialogue arm clearing the cursor at the end of the dialogue
advance_dialogue_clearing(cur, st) == Step(NoId, st, EndOfDialogue)

\* the Dialogue arm: the end of the dialogue, nothing moves
advance_dialogue(cur, st) == Step(cur, st, EndOfDialogue)

\* the Hub arm failing when no target is enabled, as a fragment would
hub_outcome_failing_empty(f, cur, st) ==
    LET choices == get_available_connections_at_cursor(f, cur, st)
    IN  CASE choices.kind = "Panic" -> Panic
          [] choices.kind = "Err" -> Err("NoOutputConnected")
          [] choices.targets = <<>> -> Err("NoOutputConnected")
          [] OTHER -> WaitingForChoice(choices.targets)

\* the Hub arm (and post_advance's Hub arm)
hub_outcome(f, cur, st) ==
    LET choices == get_available_connections_at_cursor(f, cur, st)
    IN  CASE choices.kind = "Panic" -> Panic
          [] choices.kind = "Err" -> Err("NoOutputConnected")
          [] OTHER -> WaitingForChoice(choices.targets)

advance_fragment(f, cur, st, seen, model) ==
    LET available == get_available_connections_at_cursor(f, cur, st)
    IN  CASE available.kind = "Panic" -> Step(cur, st, Panic)
          [] available.kind = "Err" -> Step(cur, st, Err("NoOutputConnected"))
          [] OTHER ->
                IF fragment_waits(Len(available.targets))
                THEN Step(cur, st, WaitingForChoice(available.targets))
                ELSE IF fragment_target(model.output_pins) = NoId
                     THEN Step(cur, st, Err("NoOutputConnected"))
                     ELSE post_advance(f, fragment_target(model.output_pins), st, seen)

\* the Condition arm returning after its own move, without post_advance
advance_condition_single_step(f, cur, st, seen, model) ==
    LET result == condition_result(model.expression, st)
        target == condition_target(result, model.output_pins)
    IN  IF target = NoId THEN Step(cur, st, Err("NoOutputConnected"))
        ELSE Step(target, st, Advanced(target))

advance_condition(f, cur, st, seen, model) ==
    LET result == condition_result(model.expression, st)
        target == condition_target(result, model.output_pins)
    IN  IF cur \in seen THEN Step(cur, st, Diverge)
        ELSE IF target = NoId THEN Step(cur, st, Err("NoOutputConnected"))
        ELSE post_advance(f, target, st, seen \cup {cur})

\* the Instruction arm propagating the statement's error with ?
advance_instruction_stopping_on_error(f, cur, st, seen, model) ==
    LET mutated == eval_with_context_mut(model.expression, st)
        target == instruction_target(model.output_pins)
    IN  IF eval_with_context_mut_fails(model.expression, st)
        THEN Step(cur, st, Err("FailedToSetState"))
        ELSE IF target = NoId THEN Step(cur, mutated, Err("NoOutputConnected"))
        ELSE post_advance(f, target, mutated, seen)

\* the Instruction arm: the statement's result is printed and dropped
advance_instruction(f, cur, st, seen, model) ==
    LET mutated == eval_with_context_mut(model.expression, st)
        target == instruction_target(model.output_pins)
    IN  IF target = NoId THEN Step(cur, mutated, Err("NoOutputConnected"))
        ELSE post_advance(f, target, mutated, seen)

advance(f, cur, st, seen) ==
    IF cur = NoId THEN Step(cur, st, Err("NoCursor"))
    ELSE IF ~has_model(f, cur) THEN Step(cur, st, Err("NoModel"))
    ELSE LET model == find_model(f, cur)
         IN  CASE model.kind = "Dialogue" -> advance_dialogue(cur, st)
               [] model.kind = "DialogueFragment" -> advance_fragment(f, cur, st, seen, model)
               [] model.kind = "Hub" -> Step(cur, st, hub_outcome(f, cur, st))
               [] model.kind = "FlowFragment" -> Step(cur, st, Panic)
               [] model.kind = "Condition" -> advance_condition(f, cur, st, seen, model)
               [] model.kind = "Instruction" -> advance_instruction(f, cur, st, seen, model)
               [] OTHER -> Step(cur, st, Panic)

\* post_advance without its Condition arm: a Condition is reported as Advanced
post_advance_resting_on_condition(f, cur, st, seen) ==
    IF ~has_model(f, cur) THEN Step(cur, st, Err("NoModel"))
    ELSE LET model == find_model(f, cur)
         IN  CASE model.kind = "Dialogue" -> Step(cur, st, EndOfDialogue)
               [] model.kind = "Hub" -> Step(cur, st, hub_outcome(f, cur, st))
               [] OTHER -> Step(cur, st, Advanced(cur))

post_advance(f, cur, st, seen) ==
    IF ~has_model(f, cur) THEN Step(cur, st, Err("NoModel"))
    ELSE LET model == find_model(f, cur)
         IN  CASE model.kind = "Dialogue" -> Step(cur, st, EndOfDialogue)
               [] model.kind = "Hub" -> Step(cur, st, hub_outcome(f, cur, st))
               [] model.kind = "Condition" -> advance(f, cur, st, seen)
               [] OTHER -> Step(cur, st, Advanced(cur))

(***************************************************************************)
(* Interpreter::choose                                                     *)
(***************************************************************************)
\* the filter_map closure: the choice's FIRST input pin decides
choice_filter(f, st, choice) ==
    LET model == find_model(f, choice)
    IN  IF ~has_pins(model) THEN FALSE
        ELSE IF model.input_pins = <<>> THEN FALSE
        ELSE LET expression == Head(model.input_pins).text
             IN  expression = "" \/ eval_boolean_with_context(expression, st) = "true"

\* the None arm refusing the choice instead of advancing
choose_not_found_refusing(f, cur, st) == Step(cur, st, Err("NoOutputConnected"))

\* the None arm of the match: self.advance()
choose_not_found(f, cur, st) == advance(f, cur, st, {})

\* choose passing the resolver's own error on with ?, without .ok().ok_or(..)
choose_passing_error_on(f, cur, st, id) ==
    LET available == get_available_connections_at_cursor(f, cur, st)
    IN  CASE available.kind = "Panic" -> Step(cur, st, Panic)
          [] available.kind = "Err" -> Step(cur, st, available)
          [] OTHER ->
                LET choices == SelectSeq(available.targets,
                                         LAMBDA c : choice_filter(f, st, c))
                IN  IF \E i \in 1..Len(choices) : choices[i] = id
                    THEN Step(id, st, Advanced(id))
                    ELSE choose_not_found(f, cur, st)

choose(f, cur, st, id) ==
    LET available == get_available_connections_at_cursor(f, cur, st)
    IN  CASE available.kind = "Panic" -> Step(cur, st, Panic)
          [] available.kind = "Err" -> Step(cur, st, Err("NoOutputConnected"))
          [] OTHER ->
                LET choices == SelectSeq(available.targets,
                                         LAMBDA c : choice_filter(f, st, c))
                IN  IF \E i \in 1..Len(choices) : choices[i] = id
                    THEN Step(id, st, Advanced(id))
                    ELSE choose_not_found(f, cur, st)

(***************************************************************************)
(* File::get_main_flow, File::get_hierarchy,                               *)
(* File::get_hierarchy_path_from_model,                                    *)
(* File::get_first_dialogue_fragment_of_dialogue, File::get_dialogues_in_flow *)
(***************************************************************************)
\* Option<&Hierarchy> and Result<Id, Error> of the hierarchy look-ups
SomeEntry(entry) == [some |-> TRUE, entry |-> entry]

NoEntry == [some |-> FALSE, entry |-> Hierarchy(NoId, "", NoChildren)]

\* children.as_ref()?.iter().find(|item| kind of item is one of `kinds`)
first_child_of_kind(children, kinds) ==
    IF ~children.has THEN NoEntry
    ELSE IF \E i \in 1..Len(children.items) : children.items[i].kind \in kinds
         THEN SomeEntry(children.items[CHOOSE i \in 1..Len(children.items) :
                            /\ children.items[i].kind \in kinds
                            /\ \A j \in 1..(i - 1) : children.items[j].kind \notin kinds])
         ELSE NoEntry

\* children.as_ref()?.iter().find(|node| &node.id == id)
child_with_id(children, id) ==
    IF ~children.has THEN NoEntry
    ELSE IF \E i \in 1..Len(children.items) : children.items[i].id = id
         THEN SomeEntry(children.items[CHOOSE i \in 1..Len(children.items) :
                            /\ children.items[i].id = id
                            /\ \A j \in 1..(i - 1) : children.items[j].id # id])
         ELSE NoEntry

get_main_flow(f) == first_child_of_kind(f.hierarchy.children, {"Flow"})

RECURSIVE descend(_, _)
descend(current_node, path) ==
    IF path = <<>> THEN SomeEntry(current_node)
    ELSE LET next == child_with_id(current_node.children, Head(path))
         IN  IF next.some THEN descend(next.entry, Tail(path)) ELSE NoEntry

get_hierarchy(f, path) == descend(f.hierarchy, path)

Reverse(seq) == [i \in 1..Len(seq) |-> seq[Len(seq) + 1 - i]]

\* the while loop; `seen` holds the ids already looked up: meeting one again
\* means the parent pointers form a cycle and the loop never ends
RECURSIVE path_loop(_, _, _, _, _)
path_loop(f, main_flow_id, path, cur, seen) ==
    IF cur = main_flow_id THEN [kind |-> "Ok", path |-> path]
    ELSE IF cur \in seen THEN [kind |-> "Diverge", path |-> path]
    ELSE IF has_model(f, cur)
         THEN path_loop(f, main_flow_id, Append(path, find_model(f, cur).parent),
                        find_model(f, cur).parent, seen \cup {cur})
         ELSE [kind |-> "Ok", path |-> path]

\* the path left in the order the loop collected it, node first
get_hierarchy_path_from_model_unreversed(f, model) ==
    LET main_flow == get_main_flow(f)
    IN  IF ~main_flow.some THEN [kind |-> "NoMainFlow", path |-> <<>>]
        ELSE path_loop(f, main_flow.entry.id, <<model.id, model.parent>>,
                       model.parent, {})

get_hierarchy_path_from_model(f, model) ==
    LET main_flow == get_main_flow(f)
    IN  IF ~main_flow.some THEN [kind |-> "NoMainFlow", path |-> <<>>]
        ELSE LET walked == path_loop(f, main_flow.entry.id, <<model.id, model.parent>>,
                                     model.parent, {})
             IN  [kind |-> walked.kind, path |-> Reverse(walked.path)]

\* the kinds the find over the resolved entry's children accepts
PlayableKinds == {"DialogueFragment", "Condition", "Hub", "FlowFragment"}

\* the find taking the first child of the entry, whatever its kind
first_playable_child_of_any_kind(f, path) ==
    LET entry == get_hierarchy(f, path)
    IN  IF ~entry.some THEN Err("NoHierarchy")
        ELSE IF ~entry.entry.children.has THEN Err("NoHierarchy")
        ELSE IF entry.entry.children.items = <<>> THEN Err("NoHierarchy")
        ELSE OkModel(Head(entry.entry.children.items).id)

\* get_hierarchy(path)?.children?.iter().find(playable)?.id, as a Res with
\* the id in `node`
first_playable_child(f, path) ==
    LET entry == get_hierarchy(f, path)
    IN  IF ~entry.some THEN Err("NoHierarchy")
        ELSE LET child == first_child_of_kind(entry.entry.children, PlayableKinds)
             IN  IF child.some THEN OkModel(child.entry.id) ELSE Err("NoHierarchy")

get_first_dialogue_fragment_of_dialogue(f, model) ==
    LET path == get_hierarchy_path_from_model(f, model)
    IN  CASE path.kind = "NoMainFlow" -> Err("NoMainFlow")
          [] path.kind = "Diverge" -> Diverge
          [] OTHER -> first_playable_child(f, path.path)

get_dialogues_in_flow(f, flow_id) ==
    SelectSeq(f.models, LAMBDA model : model.kind = "Dialogue" /\ model.parent = flow_id)

(***************************************************************************)
(* Interpreter::start                                                      *)
(***************************************************************************)
\* the container arms beginning the dialogue on a fresh store
start_container_on_fresh_store(f, st, id, found) ==
    CASE found.kind = "Ok" -> Step(found.node, EmptyStore, Ok)
      [] OTHER -> Step(id, EmptyStore, found)

\* the container arms: the cursor already rests on the container `id`
start_container(f, st, id, found) ==
    CASE found.kind = "Ok" -> Step(found.node, st, Ok)
      [] OTHER -> Step(id, st, found)

\* the failed find reported as IdNotFound
start_unresolved_as_id_not_found(cur, st) == Step(cur, st, Err("IdNotFound"))

\* find(..).ok_or(Error::NoModel)? : the cursor is not assigned
start_unresolved(cur, st) == Step(cur, st, Err("NoModel"))

start(f, cur, st, id) ==
    IF ~has_model(f, id) THEN start_unresolved(cur, st)
    ELSE LET model == find_model(f, id)
         IN  CASE model.kind = "FlowFragment" ->
                    LET dialogues == get_dialogues_in_flow(f, id)
                    IN  IF dialogues = <<>> THEN Step(id, st, Err("NoModel"))
                        ELSE start_container(f, st, id,
                                get_first_dialogue_fragment_of_dialogue(f, Head(dialogues)))
               [] model.kind = "Dialogue" ->
                    start_container(f, st, id,
                                    get_first_dialogue_fragment_of_dialogue(f, model))
               [] OTHER -> Step(id, st, Ok)

(***************************************************************************)
(* The explored files.  Every file holds the same nodes; the files differ  *)
(* in the output pins `outs` given to one node of each kind that advance   *)
(* dispatches on: the DialogueFragment F1, the Hub H, the Condition C1 and *)
(* the Instruction I1.  The connections are drawn from a pool that covers: *)
(* a gated first input pin (F2a), an open second input pin of the same     *)
(* node (F2b), a negated gate (F3a), a chain of Conditions (C2, C3) that   *)
(* is a cycle while `flag` is undefined, a Hub, an Instruction, the        *)
(* containers, a target that is no model (X), a target pin the target does *)
(* not have, and a target of a kind without pins (E).                      *)
(***************************************************************************)
SeqsUpTo(S, n) == UNION {[1..k -> S] : k \in 0..n}

CoreConnections ==
    {Connection("F2", "F2a"), Connection("F2", "F2b"), Connection("F3", "F3a")}

OtherConnections ==
    {Connection("C2", "C2in"), Connection("H", "Hin"), Connection("D", "Din"),
     Connection("I1", "I1in"), Connection("FF", "FFin"), Connection("X", "Xin"),
     Connection("F3", "nopin"), Connection("E", "Ein")}

\* one output pin: up to MaxConns connections, at most one of them not a core
\* one, and that one first or last
OnePinLists ==
    {<<cs>> : cs \in {s \in SeqsUpTo(CoreConnections \cup OtherConnections, MaxConns) :
                        /\ Cardinality({i \in DOMAIN s : s[i] \in OtherConnections}) <= 1
                        /\ \A i \in DOMAIN s :
                              s[i] \in OtherConnections => i \in {1, Len(s)}}}

\* two output pins: up to MaxConns connections on the first, at most one on the last
TwoPinLists ==
    {<<cs1, cs2>> :
        cs1 \in SeqsUpTo({Connection("F2", "F2a"), Connection("F3", "F3a")}, MaxConns),
        cs2 \in SeqsUpTo({Connection("F2", "F2b"), Connection("C2", "C2in")}, 1)}

\* the connection lists of the output pins of the varied nodes
PinLists == {<<>>} \cup OnePinLists \cup TwoPinLists

OutputPins(lists) == [i \in 1..Len(lists) |-> Pin("out", "", lists[i])]

In(id) == <<Pin(id, "", <<>>)>>

Models(outs) ==
    <<Model("FF", "FlowFragment", "Flow", "", In("FFin"), <<>>),
      Model("D", "Dialogue", "FF", "", In("Din"), <<>>),
      Model("E", "Entity", "D", "", <<>>, <<>>),
      Model("F1", "DialogueFragment", "D", "", In("F1in"), outs),
      Model("H", "Hub", "D", "", In("Hin"), outs),
      Model("C1", "Condition", "D", "flag", In("C1in"), outs),
      Model("I1", "Instruction", "D", "flag = !flag", In("I1in"), outs),
      Model("F2", "DialogueFragment", "D", "",
            <<Pin("F2a", "flag", <<>>), Pin("F2b", "", <<>>)>>,
            OutputPins(<< <<Connection("D", "Din")>> >>)),
      Model("F3", "DialogueFragment", "D", "", <<Pin("F3a", "!flag", <<>>)>>,
            OutputPins(<< <<>> >>)),
      Model("C2", "Condition", "D", "flag", In("C2in"),
            OutputPins(<< <<Connection("F2", "F2b")>>, <<Connection("C3", "C3in")>> >>)),
      Model("C3", "Condition", "D", "!flag", In("C3in"),
            OutputPins(<< <<Connection("F3", "F3a")>>, <<Connection("C2", "C2in")>> >>))>>

Leaf(id, kind) == Hierarchy(id, kind, NoChildren)

StdHierarchy ==
    Hierarchy("Project", "Project", Children(<<
        Leaf("Entities", "Entities"),
        Hierarchy("Flow", "Flow", Children(<<
            Hierarchy("FF", "FlowFragment", Children(<<
                Hierarchy("D", "Dialogue", Children(<<
                    Leaf("E", "Entity"), Leaf("F1", "DialogueFragment"),
                    Leaf("H", "Hub"), Leaf("C1", "Condition"),
                    Leaf("I1", "Instruction"),
                    Leaf("F2", "DialogueFragment"), Leaf("F3", "DialogueFragment"),
                    Leaf("C2", "Condition"), Leaf("C3", "Condition")>>))>>))>>))>>))

File(outs, hierarchy) == [models |-> Models(outs), hierarchy |-> hierarchy]

\* the standard hierarchy under every explored list of output pins
StdFiles == {File(OutputPins(lists), StdHierarchy) : lists \in PinLists}

(***************************************************************************)
(* Files that differ in the hierarchy, for start: the FlowFragment with a  *)
(* playable child of its own before the Dialogue, and a Hub as the         *)
(* Dialogue's first playable child; a Dialogue whose children are not      *)
(* playable; no Flow root; a path that the tree does not hold; and a       *)
(* Dialogue beside the FlowFragment instead of inside it.                  *)
(***************************************************************************)
Tree(top) == Hierarchy("Project", "Project", Children(top))

FlowOf(items) == Hierarchy("Flow", "Flow", Children(items))

FlowFragmentOf(items) == Hierarchy("FF", "FlowFragment", Children(items))

DialogueOf(items) == Hierarchy("D", "Dialogue", Children(items))

OwnChildHierarchy ==
    Tree(<<Leaf("Entities", "Entities"),
           FlowOf(<<FlowFragmentOf(<<
               Leaf("F3", "DialogueFragment"),
               DialogueOf(<<Leaf("E", "Entity"), Leaf("I1", "Instruction"),
                            Leaf("H", "Hub"), Leaf("F1", "DialogueFragment")>>)>>)>>)>>)

NoPlayableHierarchy ==
    Tree(<<Leaf("Entities", "Entities"),
           FlowOf(<<FlowFragmentOf(<<
               DialogueOf(<<Leaf("E", "Entity"), Leaf("I1", "Instruction")>>)>>)>>)>>)

NoFlowHierarchy == Tree(<<Leaf("Entities", "Entities")>>)

BrokenPathHierarchy ==
    Tree(<<Leaf("Entities", "Entities"), FlowOf(<<Leaf("FF", "FlowFragment")>>)>>)

BesideHierarchy ==
    Tree(<<Leaf("Entities", "Entities"),
           FlowOf(<<FlowFragmentOf(<<Leaf("F3", "DialogueFragment")>>),
                    DialogueOf(<<Leaf("E", "Entity"), Leaf("C1", "Condition"),
                                 Leaf("F1", "DialogueFragment")>>)>>)>>)

\* the models with the parent of node `id` replaced
Reparent(models, id, parent) ==
    [i \in 1..Len(models) |->
        IF models[i].id = id THEN [models[i] EXCEPT !.parent = parent] ELSE models[i]]

HierarchyFiles ==
    {[models |-> Reparent(Models(<<>>), "F3", "FF"), hierarchy |-> OwnChildHierarchy],
     File(<<>>, NoPlayableHierarchy),
     File(<<>>, NoFlowHierarchy),
     File(<<>>, BrokenPathHierarchy),
     [models |-> Reparent(Reparent(Models(<<>>), "F3", "FF"), "D", "Flow"),
      hierarchy |-> BesideHierarchy]}

Files == StdFiles \cup HierarchyFiles

\* the ids start is tried with: the varied nodes, the containers, and no model
StartIds == {"F1", "H", "C1", "I1", "D", "FF", "X"}

\* the ids choose is tried with: connection targets of several kinds, and no model
ChooseIds == {"F2", "F3", "C2", "H", "D", "X"}

(***************************************************************************)
(* The interpreter.  Interpreter::new, then one action per public method.  *)
(* A call that aborted or never returned ends the session.                 *)
(***************************************************************************)
\* Outcome::WaitingForChoice(targets) in the caller's hands, or nothing
SomeOffer(targets) == [some |-> TRUE, targets |-> targets]

NoOffer == [some |-> FALSE, targets |-> <<>>]

\* the calls that return no Outcome: they leave a pending choice pending
Inspections == {"set_state", "get_current_model", "get_available_connections"}

Init ==
    /\ file \in Files
    /\ state = EmptyStore
    /\ cursor = NoId
    /\ last = [op |-> "new", arg |-> NoId, pre_cursor |-> NoId,
               pre_state |-> EmptyStore, res |-> NoRes]
    /\ offer = NoOffer

Alive == last.res.kind \notin {"Panic", "Diverge"}

Call(op, arg, step) ==
    /\ Alive
    /\ \E s \in {step} :
          /\ cursor' = s.cursor
          /\ state' = s.state
          /\ last' = [op |-> op, arg |-> arg, pre_cursor |-> cursor,
                      pre_state |-> state, res |-> s.res]
          /\ offer' = CASE s.res.kind = "WaitingForChoice" -> SomeOffer(s.res.targets)
                        [] op \in Inspections -> offer
                        [] OTHER -> NoOffer
    /\ UNCHANGED file

SetState(key, value) ==
    Call("set_state", key, Step(cursor, [state EXCEPT ![key] = value], Ok))

Start(id) == Call("start", id, start(file, cursor, state, id))

GetCurrentModel == Call("get_current_model", NoId, Step(cursor, state, get_current_model(file, cursor)))

\* the cursor read with Option::take(), which leaves None behind
resolve_at_cursor_taking_it(f, cur, st) ==
    Step(NoId, st, get_available_connections_at_cursor(f, cur, st))

\* get_available_connections_at_cursor(&self): the fields are only read
resolve_at_cursor(f, cur, st) ==
    Step(cur, st, get_available_connections_at_cursor(f, cur, st))

GetAvailableConnectionsAtCursor ==
    Call("get_available_connections", NoId, resolve_at_cursor(file, cursor, state))

Choose(id) == Call("choose", id, choose(file, cursor, state, id))

Advance == Call("advance", NoId, advance(file, cursor, state, {}))

(***************************************************************************)
(* Interpreter::exhaust_maximally: loop { match self.advance()? { ... } }. *)
(* `seen` holds the cursors and stores the loop has called advance on:     *)
(* meeting one again means the Advanced outcomes never end.                *)
(***************************************************************************)
\* the loop stopping after its first advance, whatever the outcome
exhaust_maximally_once(f, cur, st, seen) ==
    LET step == advance(f, cur, st, {})
    IN  IF step.res.kind \in {"Advanced", "WaitingForChoice", "EndOfDialogue"}
        THEN Step(step.cursor, step.state, Ok)
        ELSE step

RECURSIVE exhaust_maximally(_, _, _, _)
exhaust_maximally(f, cur, st, seen) ==
    LET step == advance(f, cur, st, {})
    IN  IF <<cur, st>> \in seen THEN Step(cur, st, Diverge)
        ELSE CASE step.res.kind = "Advanced" ->
                     exhaust_maximally(f, step.cursor, step.state, seen \cup {<<cur, st>>})
               [] step.res.kind \in {"WaitingForChoice", "EndOfDialogue"} ->
                     Step(step.cursor, step.state, Ok)
               [] OTHER -> step

ExhaustMaximally ==
    Call("exhaust_maximally", NoId, exhaust_maximally(file, cursor, state, {}))

Next ==
    \/ \E key \in Vars, value \in Values : SetState(key, value)
    \/ \E id \in StartIds : Start(id)
    \/ GetCurrentModel
    \/ GetAvailableConnectionsAtCursor
    \/ \E id \in ChooseIds : Choose(id)
    \/ Advance
    \/ ExhaustMaximally

Spec == Init /\ [][Next]_vars

(***************************************************************************)
(* Vocabulary of the properties.                                           *)
(***************************************************************************)
KindAt(f, id) == IF has_model(f, id) THEN find_model(f, id).kind ELSE "none"

\* every connection of the output pins of node `id`, pin by pin
ConnectionsOf(f, id) ==
    LET pins == find_model(f, id).output_pins
    IN  Flatten([i \in 1..Len(pins) |-> pins[i].connections])

\* the gating rule on one connection: the input pin the connection names
\* exists and its expression is empty or evaluates to true
EdgeEnabled(f, st, c) ==
    /\ has_model(f, c.target)
    /\ LET pins == find_model(f, c.target).input_pins
       IN  /\ \E i \in 1..Len(pins) : pins[i].id = c.target_pin
           /\ LET text == pins[CHOOSE i \in 1..Len(pins) : pins[i].id = c.target_pin].text
              IN  text = "" \/ eval_boolean_with_context(text, st) = "true"

\* the resolved target sequence of node `id`: the targets of its enabled
\* connections, in pin order and then connection order
EnabledTargets(f, st, id) ==
    LET enabled == SelectSeq(ConnectionsOf(f, id), LAMBDA c : EdgeEnabled(f, st, c))
    IN  [i \in 1..Len(enabled) |-> enabled[i].target]

\* node `id` has pins and no connection of it leads to a node of a kind
\* without pins
Resolvable(f, id) ==
    /\ has_model(f, id)
    /\ has_pins(find_model(f, id))
    /\ \A i \in 1..Len(ConnectionsOf(f, id)) :
          LET c == ConnectionsOf(f, id)[i]
          IN  has_model(f, c.target) => has_pins(find_model(f, c.target))

\* referential integrity of the connections of node `id`: each names a node
\* of the package and an input pin of that node
Intact(f, id) ==
    /\ has_model(f, id)
    /\ has_pins(find_model(f, id))
    /\ \A i \in 1..Len(ConnectionsOf(f, id)) :
          LET c == ConnectionsOf(f, id)[i]
          IN  /\ has_model(f, c.target)
              /\ has_pins(find_model(f, c.target))
              /\ has_pin(find_model(f, c.target).input_pins, c.target_pin)

\* the last call was advance() with the cursor on a node of this kind
AdvancedFrom(kind) == last.op = "advance" /\ KindAt(file, last.pre_cursor) = kind

\* the cursor and the outcome after post-advance dispatch from node t
DispatchedFrom(t, seen) ==
    /\ cursor = post_advance(file, t, last.pre_state, seen).cursor
    /\ last.res = post_advance(file, t, last.pre_state, seen).res

\* every entry of a hierarchy tree
RECURSIVE Entries(_)
Entries(h) ==
    {h} \cup (IF h.children.has
               THEN UNION {Entries(h.children.items[i]) : i \in 1..Len(h.children.items)}
               ELSE {})

\* the tree holds an entry for node `id`
HasEntry(f, id) == \E e \in Entries(f.hierarchy) : e.id = id

\* the children of the entry of node `id` whose kind is playable, in child order
PlayableChildren(f, id) ==
    LET entry == CHOOSE e \in Entries(f.hierarchy) : e.id = id
    IN  IF entry.children.has
        THEN SelectSeq(entry.children.items,
                       LAMBDA c : c.kind \in {"DialogueFragment", "Condition",
                                               "Hub", "FlowFragment"})
        ELSE <<>>

\* the value of the expression of the Condition the last call started on
ConditionValue ==
    eval_boolean_with_context(find_model(file, last.pre_cursor).expression, last.pre_state)

\* the output pin that value selects: the first if true, else the last
ConditionPin ==
    LET pins == find_model(file, last.pre_cursor).output_pins
    IN  IF ConditionValue = "true" THEN pins[1] ELSE pins[Len(pins)]

\* the kinds of Ok(outcome) advance and choose return
Outcomes == {"Advanced", "WaitingForChoice", "EndOfDialogue"}

\* the nodes a sequence of targets lists
Listed(targets) == {targets[i] : i \in 1..Len(targets)}

\* the input pin connection c names exists and has the empty gating expression
OpenPin(f, c) ==
    /\ has_model(f, c.target)
    /\ has_pins(find_model(f, c.target))
    /\ has_pin(find_model(f, c.target).input_pins, c.target_pin)
    /\ find_pin(find_model(f, c.target).input_pins, c.target_pin).text = ""

\* choose(id) met id among the targets it filtered: the edge to id is enabled
\* and the first input pin of id is open
ChoiceFound ==
    /\ last.op = "choose"
    /\ Resolvable(file, last.pre_cursor)
    /\ last.arg \in Listed(EnabledTargets(file, last.pre_state, last.pre_cursor))
    /\ choice_filter(file, last.pre_state, last.arg)

(***************************************************************************)
(* C1: advance() from a DialogueFragment whose resolved targets are        *)
(* exactly one node t moves the cursor to t and applies post-advance       *)
(* dispatch there; it never moves to a target that is gated off.           *)
(***************************************************************************)
C1_SingleEnabledTargetTaken ==
    (/\ AdvancedFrom("DialogueFragment")
     /\ Intact(file, last.pre_cursor)
     /\ Len(EnabledTargets(file, last.pre_state, last.pre_cursor)) = 1)
    => DispatchedFrom(EnabledTargets(file, last.pre_state, last.pre_cursor)[1], {})

(***************************************************************************)
(* C2: advance() from a DialogueFragment with no enabled target (none      *)
(* connected, or all gated off) fails with NoOutputConnected.              *)
(***************************************************************************)
C2_NoEnabledTargetFails ==
    (/\ AdvancedFrom("DialogueFragment")
     /\ Intact(file, last.pre_cursor)
     /\ EnabledTargets(file, last.pre_state, last.pre_cursor) = <<>>)
    => last.res = Err("NoOutputConnected")

(***************************************************************************)
(* C3: advance() from a DialogueFragment with more than one enabled target *)
(* returns WaitingForChoice with exactly the sequence                      *)
(* getAvailableConnections returns for the cursor, and leaves the cursor   *)
(* where it was.                                                           *)
(***************************************************************************)
C3_FragmentWaitsForChoice ==
    (/\ AdvancedFrom("DialogueFragment")
     /\ get_available_connections(file, last.pre_state, last.pre_cursor).kind = "Ok"
     /\ Len(get_available_connections(file, last.pre_state, last.pre_cursor).targets) > 1)
    => /\ last.res = WaitingForChoice(
                        get_available_connections(file, last.pre_state, last.pre_cursor).targets)
       /\ cursor = last.pre_cursor

C3_Witness ==
    /\ AdvancedFrom("DialogueFragment")
    /\ last.res.kind = "WaitingForChoice"
    /\ Len(last.res.targets) > 1
    /\ Len(EnabledTargets(file, last.pre_state, last.pre_cursor)) > 1
    /\ Len(EnabledTargets(file, last.pre_state, last.pre_cursor))
         < Len(ConnectionsOf(file, last.pre_cursor))

(***************************************************************************)
(* C4: advance() with the cursor on a Hub returns WaitingForChoice with    *)
(* the resolved targets, also when none or one is enabled, and leaves the  *)
(* cursor on the Hub however often it is called; of the traversal calls    *)
(* only a choose that names one of the resolved targets moves the cursor   *)
(* off the Hub (start repositions the cursor from any state).  Stated for  *)
(* Hubs whose connections lead to nodes with pins.                         *)
(***************************************************************************)
C4_HubWaitsForChoice ==
    (KindAt(file, last.pre_cursor) = "Hub" /\ Resolvable(file, last.pre_cursor))
    => /\ last.op = "advance" =>
            /\ last.res = WaitingForChoice(
                             EnabledTargets(file, last.pre_state, last.pre_cursor))
            /\ cursor = last.pre_cursor
       /\ (cursor # last.pre_cursor /\ last.op # "start") =>
            /\ last.op = "choose"
            /\ cursor = last.arg
            /\ \E i \in 1..Len(EnabledTargets(file, last.pre_state, last.pre_cursor)) :
                  EnabledTargets(file, last.pre_state, last.pre_cursor)[i] = last.arg

C4_Witness ==
    /\ AdvancedFrom("Hub")
    /\ last.res.kind = "WaitingForChoice"
    /\ Len(last.res.targets) <= 1
    /\ ConnectionsOf(file, last.pre_cursor) # <<>>
    /\ cursor = last.pre_cursor

(***************************************************************************)
(* C5: advance() with the cursor on a Dialogue returns EndOfDialogue and   *)
(* leaves the cursor and the Variable Store as they were.                  *)
(***************************************************************************)
C5_DialogueIsTerminal ==
    AdvancedFrom("Dialogue")
    => /\ last.res = EndOfDialogue
       /\ cursor = last.pre_cursor
       /\ state = last.pre_state

C5_Witness ==
    /\ AdvancedFrom("Dialogue")
    /\ last.res = EndOfDialogue
    /\ state["flag"] = "true"

(***************************************************************************)
(* C6: advance() with the cursor on a Condition whose expression evaluates *)
(* to true moves the cursor to the target of the first connection of the   *)
(* first output pin, and when it evaluates to false to the target of the   *)
(* first connection of the last output pin; dispatch continues from there. *)
(***************************************************************************)
C6_ConditionBranches ==
    (/\ AdvancedFrom("Condition")
     /\ ConditionValue \in {"true", "false"}
     /\ find_model(file, last.pre_cursor).output_pins # <<>>
     /\ ConditionPin.connections # <<>>)
    => /\ DispatchedFrom(ConditionPin.connections[1].target, {last.pre_cursor})
       /\ KindAt(file, ConditionPin.connections[1].target)
             \in {"DialogueFragment", "Dialogue", "Hub", "Instruction", "FlowFragment"}
          => cursor = ConditionPin.connections[1].target

C6_Witness ==
    /\ AdvancedFrom("Condition")
    /\ ConditionValue = "false"
    /\ Len(find_model(file, last.pre_cursor).output_pins) = 2
    /\ find_model(file, last.pre_cursor).output_pins[1].connections # <<>>
    /\ ConditionPin.connections # <<>>
    /\ find_model(file, last.pre_cursor).output_pins[1].connections[1].target
          # ConditionPin.connections[1].target
    /\ cursor = ConditionPin.connections[1].target
    /\ last.res = Advanced(cursor)

(***************************************************************************)
(* C7: one advance() from a DialogueFragment whose only enabled target     *)
(* starts a chain of Conditions that ends in another node returns the      *)
(* outcome for that final node with the cursor on it; and no advance()     *)
(* that returns an outcome returns Advanced(c) for a Condition c or leaves *)
(* the cursor on a Condition.                                              *)
(***************************************************************************)
C7_ConditionChainIsTransparent ==
    /\ (/\ AdvancedFrom("DialogueFragment")
        /\ Intact(file, last.pre_cursor)
        /\ Len(EnabledTargets(file, last.pre_state, last.pre_cursor)) = 1
        /\ KindAt(file, EnabledTargets(file, last.pre_state, last.pre_cursor)[1]) = "Condition"
        /\ post_advance(file, EnabledTargets(file, last.pre_state, last.pre_cursor)[1],
                        last.pre_state, {}).res.kind \in Outcomes)
       => DispatchedFrom(EnabledTargets(file, last.pre_state, last.pre_cursor)[1], {})
    /\ (last.op = "advance" /\ last.res.kind \in Outcomes)
       => /\ KindAt(file, cursor) # "Condition"
          /\ last.res.kind = "Advanced" => KindAt(file, last.res.node) # "Condition"

(***************************************************************************)
(* C8: getAvailableConnections includes the target of a connection exactly *)
(* if the input pin that the connection's target_pin names (not another    *)
(* input pin of the target) has an empty gating expression or one that     *)
(* evaluates to true; an evaluation error disables the edge and is never   *)
(* the result of the call.                                                 *)
(***************************************************************************)
C8_GatedByNamedPin ==
    (last.op = "get_available_connections" /\ Resolvable(file, last.pre_cursor))
    => /\ last.res.kind = "Ok"
       /\ Listed(last.res.targets) =
             {ConnectionsOf(file, last.pre_cursor)[i].target :
                i \in {j \in 1..Len(ConnectionsOf(file, last.pre_cursor)) :
                         EdgeEnabled(file, last.pre_state,
                                     ConnectionsOf(file, last.pre_cursor)[j])}}

\* a call where one edge is closed by an evaluation error and another is open
\* through an input pin that is not the target's first
C8_Witness ==
    /\ last.op = "get_available_connections"
    /\ last.res.kind = "Ok"
    /\ last.pre_state["flag"] = Undef
    /\ \E i \in 1..Len(ConnectionsOf(file, last.pre_cursor)) :
          ConnectionsOf(file, last.pre_cursor)[i] = Connection("F2", "F2a")
    /\ \E i \in 1..Len(ConnectionsOf(file, last.pre_cursor)) :
          ConnectionsOf(file, last.pre_cursor)[i] = Connection("F2", "F2b")
    /\ last.res.targets = <<"F2">>

(***************************************************************************)
(* C9: the target of a connection whose target input pin has the empty     *)
(* gating expression is in the result of getAvailableConnections for the   *)
(* source node, whatever the Variable Store holds.                         *)
(***************************************************************************)
C9_EmptyGateAlwaysOpen ==
    (last.op = "get_available_connections" /\ Resolvable(file, last.pre_cursor))
    => \A i \in 1..Len(ConnectionsOf(file, last.pre_cursor)) :
          OpenPin(file, ConnectionsOf(file, last.pre_cursor)[i])
          => ConnectionsOf(file, last.pre_cursor)[i].target \in Listed(last.res.targets)

C9_Witness ==
    /\ last.op = "get_available_connections"
    /\ last.res.kind = "Ok"
    /\ last.pre_state["flag"] = "false"
    /\ \E i \in 1..Len(ConnectionsOf(file, last.pre_cursor)) :
          /\ OpenPin(file, ConnectionsOf(file, last.pre_cursor)[i])
          /\ ConnectionsOf(file, last.pre_cursor)[i].target = "F2"
    /\ "F2" \in Listed(last.res.targets)

(***************************************************************************)
(* C10: the result of getAvailableConnections lists the enabled targets in *)
(* output-pin order and, within a pin, in connection order; a node that is *)
(* the enabled target of k connections is listed k times.                  *)
(***************************************************************************)
C10_PinThenConnectionOrder ==
    (last.op = "get_available_connections" /\ Resolvable(file, last.pre_cursor))
    => last.res.targets = EnabledTargets(file, last.pre_state, last.pre_cursor)

\* two output pins, a node listed twice, and a different node after it
C10_Witness ==
    /\ last.op = "get_available_connections"
    /\ last.res.kind = "Ok"
    /\ Len(find_model(file, last.pre_cursor).output_pins) = 2
    /\ last.res.targets = <<"F2", "F2", "C2">>

(***************************************************************************)
(* C11: getAvailableConnections on a node that has no output pins at all   *)
(* fails with NoOutputPins, while on a node that has output pins of which  *)
(* no connection is enabled it succeeds with the empty sequence.           *)
(***************************************************************************)
C11_NoOutputPinsSignalled ==
    (last.op = "get_available_connections" /\ has_model(file, last.pre_cursor))
    => IF \/ ~has_pins(find_model(file, last.pre_cursor))
          \/ find_model(file, last.pre_cursor).output_pins = <<>>
       THEN last.res = Err("NoOutputPins")
       ELSE (/\ Intact(file, last.pre_cursor)
             /\ EnabledTargets(file, last.pre_state, last.pre_cursor) = <<>>)
            => last.res = OkModels(<<>>)

(***************************************************************************)
(* C12: choose(id) with id not among the targets resolved from the cursor  *)
(* at the time of the call neither moves the cursor nor returns Advanced.  *)
(***************************************************************************)
C12_ChoiceContainment ==
    (/\ last.op = "choose"
     /\ Intact(file, last.pre_cursor)
     /\ last.arg \notin Listed(EnabledTargets(file, last.pre_state, last.pre_cursor)))
    => /\ cursor = last.pre_cursor
       /\ last.res.kind # "Advanced"

(***************************************************************************)
(* C13: choose(id) for an id that getAvailableConnections lists for the    *)
(* cursor (gated by the input pin the connection names) sets the cursor to *)
(* id and returns Advanced(id) with no further dispatch, whatever the kind *)
(* of the chosen node and however many input pins it has.                  *)
(***************************************************************************)
C13_ListedChoiceIsTaken ==
    (/\ last.op = "choose"
     /\ Intact(file, last.pre_cursor)
     /\ last.arg \in Listed(EnabledTargets(file, last.pre_state, last.pre_cursor)))
    => /\ cursor = last.arg
       /\ last.res = Advanced(last.arg)

(***************************************************************************)
(* C14: choose(id) with the cursor on a node whose targets resolve and id  *)
(* not among them returns what advance() returns from the same cursor and  *)
(* Variable Store, and leaves the cursor and the Variable Store as         *)
(* advance() leaves them.                                                  *)
(***************************************************************************)
C14_UnlistedChoiceAdvances ==
    (/\ last.op = "choose"
     /\ Resolvable(file, last.pre_cursor)
     /\ last.arg \notin Listed(EnabledTargets(file, last.pre_state, last.pre_cursor)))
    => /\ last.res = advance(file, last.pre_cursor, last.pre_state, {}).res
       /\ cursor = advance(file, last.pre_cursor, last.pre_state, {}).cursor
       /\ state = advance(file, last.pre_cursor, last.pre_state, {}).state

\* an unlisted choice on an Instruction: the statement runs and the cursor moves
C14_Witness ==
    /\ last.op = "choose"
    /\ KindAt(file, last.pre_cursor) = "Instruction"
    /\ Resolvable(file, last.pre_cursor)
    /\ EnabledTargets(file, last.pre_state, last.pre_cursor) # <<>>
    /\ last.arg \notin Listed(EnabledTargets(file, last.pre_state, last.pre_cursor))
    /\ last.res.kind = "Advanced"
    /\ cursor # last.pre_cursor
    /\ state # last.pre_state

(***************************************************************************)
(* C15: choose resolves against the Variable Store of the time of the      *)
(* call.  With a choice pending (WaitingForChoice(targets) was returned    *)
(* and the store was changed since): choose(id) for an offered id whose    *)
(* edge is now disabled does not move the cursor to id, and choose(id) for *)
(* an id that was not offered and whose edge is now enabled moves the      *)
(* cursor to id.                                                           *)
(***************************************************************************)
C15_ChooseUsesCurrentStore ==
    [][(/\ last'.op = "choose"
        /\ offer.some
        /\ Intact(file, cursor))
       => /\ (/\ last'.arg \in Listed(offer.targets)
              /\ last'.arg \notin Listed(EnabledTargets(file, state, cursor)))
             => cursor' # last'.arg
          /\ (/\ last'.arg \notin Listed(offer.targets)
              /\ last'.arg \in Listed(EnabledTargets(file, state, cursor)))
             => cursor' = last'.arg]_vars

(***************************************************************************)
(* C16: start(id) on a Dialogue puts the cursor on the first child, in     *)
(* child order, of the Dialogue's hierarchy entry whose kind is one of     *)
(* DialogueFragment, Condition, Hub, FlowFragment.                         *)
(***************************************************************************)
C16_StartOnDialogue ==
    (/\ last.op = "start"
     /\ KindAt(file, last.arg) = "Dialogue"
     /\ HasEntry(file, last.arg)
     /\ PlayableChildren(file, last.arg) # <<>>)
    => /\ last.res = Ok
       /\ cursor = Head(PlayableChildren(file, last.arg)).id

\* the first playable child is a Hub that follows children of other kinds
C16_Witness ==
    /\ last.op = "start"
    /\ KindAt(file, last.arg) = "Dialogue"
    /\ last.res = Ok
    /\ KindAt(file, cursor) = "Hub"
    /\ file.hierarchy = OwnChildHierarchy

(***************************************************************************)
(* C17: start(id) on a FlowFragment puts the cursor on the first child, in *)
(* child order, of the FlowFragment's own hierarchy entry whose kind is    *)
(* one of DialogueFragment, Condition, Hub, FlowFragment, whether or not   *)
(* the FlowFragment holds a Dialogue.                                      *)
(***************************************************************************)
C17_StartOnFlowFragment ==
    (/\ last.op = "start"
     /\ KindAt(file, last.arg) = "FlowFragment"
     /\ HasEntry(file, last.arg)
     /\ PlayableChildren(file, last.arg) # <<>>)
    => /\ last.res = Ok
       /\ cursor = Head(PlayableChildren(file, last.arg)).id

(***************************************************************************)
(* C18: start(id) with an id that no node of the default package has fails *)
(* with NoModel, and with no other error.                                  *)
(***************************************************************************)
C18_StartOnUnknownId ==
    (last.op = "start" /\ ~has_model(file, last.arg))
    => last.res = Err("NoModel")

\* an unknown id given to an interpreter that had been started before
C18_Witness ==
    /\ last.op = "start"
    /\ ~has_model(file, last.arg)
    /\ last.res.kind = "Err"
    /\ last.pre_cursor # NoId
    /\ cursor = last.pre_cursor

C20_InstructionErrorDoesNotBlock ==
    (/\ AdvancedFrom("Instruction")
     /\ find_model(file, last.pre_cursor).output_pins # <<>>
     /\ find_model(file, last.pre_cursor).output_pins[1].connections # <<>>)
    => LET target == find_model(file, last.pre_cursor).output_pins[1].connections[1].target
       IN  /\ cursor = post_advance(file, target, state, {}).cursor
           /\ last.res = post_advance(file, target, state, {}).res
           /\ KindAt(file, target) \in {"DialogueFragment", "Instruction", "FlowFragment"}
              => (cursor = target /\ last.res = Advanced(target))

\* the statement fails on the undefined variable and the cursor moves on
C20_Witness ==
    /\ AdvancedFrom("Instruction")
    /\ eval_with_context_mut_fails(find_model(file, last.pre_cursor).expression,
                                   last.pre_state)
    /\ last.res.kind = "Advanced"
    /\ cursor = last.res.node
    /\ cursor # last.pre_cursor

(***************************************************************************)
(* C21: of the traversal operations only the execution of an Instruction   *)
(* changes the Variable Store: start, getAvailableConnections, a choose    *)
(* that finds its target, and advance from a Dialogue, DialogueFragment,   *)
(* Hub or Condition leave it as it was, whatever Conditions and gating     *)
(* expressions they evaluate on the way.                                   *)
(***************************************************************************)
C21_OnlyInstructionsWrite ==
    (\/ last.op \in {"start", "get_available_connections", "get_current_model"}
     \/ ChoiceFound
     \/ (/\ last.op \in {"advance", "choose"}
         /\ KindAt(file, last.pre_cursor) \in {"Dialogue", "DialogueFragment",
                                               "Hub", "Condition"}))
    => state = last.pre_state

\* an advance through a Condition that ends on an Instruction, store defined
C21_Witness ==
    /\ AdvancedFrom("Condition")
    /\ last.res.kind = "Advanced"
    /\ KindAt(file, cursor) = "Instruction"
    /\ state["flag"] \in Values
    /\ state = last.pre_state

(***************************************************************************)
(* C22: every call of start, advance, choose, getCurrentNode and           *)
(* getAvailableConnections returns a typed result, Ok or an Error, from    *)
(* every reachable state; no call aborts.                                  *)
(***************************************************************************)
C22_NoCallAborts == last.res.kind # "Panic"

(***************************************************************************)
(* C23: advance() with the cursor on a Condition whose expression fails to *)
(* evaluate does what it does for a false expression: the cursor goes to   *)
(* the target of the first connection of the last output pin and dispatch  *)
(* continues there; the failed evaluation is not the call's result.        *)
(***************************************************************************)
C23_FailedConditionIsFalse ==
    (/\ AdvancedFrom("Condition")
     /\ ConditionValue = "err"
     /\ find_model(file, last.pre_cursor).output_pins # <<>>
     /\ ConditionPin.connections # <<>>)
    => LET pins == find_model(file, last.pre_cursor).output_pins
           target == pins[Len(pins)].connections[1].target
       IN  /\ DispatchedFrom(target, {last.pre_cursor})
           /\ KindAt(file, target) \in {"DialogueFragment", "Instruction", "FlowFragment"}
              => (cursor = target /\ last.res = Advanced(target))
           /\ KindAt(file, target) = "Dialogue" => last.res = EndOfDialogue

\* an undefined variable, two output pins with different targets
C23_Witness ==
    /\ AdvancedFrom("Condition")
    /\ ConditionValue = "err"
    /\ Len(find_model(file, last.pre_cursor).output_pins) = 2
    /\ find_model(file, last.pre_cursor).output_pins[1].connections # <<>>
    /\ find_model(file, last.pre_cursor).output_pins[2].connections # <<>>
    /\ find_model(file, last.pre_cursor).output_pins[1].connections[1].target
          # find_model(file, last.pre_cursor).output_pins[2].connections[1].target
    /\ cursor = find_model(file, last.pre_cursor).output_pins[2].connections[1].target
    /\ last.res = Advanced(cursor)

\* the last call was an advance() from a DialogueFragment, a Condition or an
\* Instruction that moved the cursor and returned an outcome
MovedByAdvance ==
    /\ last.op = "advance"
    /\ KindAt(file, last.pre_cursor) \in {"DialogueFragment", "Condition", "Instruction"}
    /\ last.res.kind \in Outcomes
    /\ KindAt(file, last.pre_cursor) = "DialogueFragment"
          => /\ Resolvable(file, last.pre_cursor)
             /\ Len(EnabledTargets(file, last.pre_state, last.pre_cursor)) <= 1

(***************************************************************************)
(* C24: after a cursor move made by advance() from a DialogueFragment, a   *)
(* Condition or an Instruction, the outcome is the one of the kind of the  *)
(* node the cursor rests on: EndOfDialogue exactly on a Dialogue,          *)
(* WaitingForChoice with the resolved targets of that node exactly on a    *)
(* Hub, Advanced(that node) on every other kind, and that node is never a  *)
(* Condition.                                                              *)
(***************************************************************************)
C24_OutcomeFollowsFinalKind ==
    MovedByAdvance
    => /\ has_model(file, cursor)
       /\ KindAt(file, cursor) # "Condition"
       /\ last.res = EndOfDialogue <=> KindAt(file, cursor) = "Dialogue"
       /\ last.res.kind = "WaitingForChoice" <=> KindAt(file, cursor) = "Hub"
       /\ KindAt(file, cursor) = "Hub"
             => /\ Resolvable(file, cursor)
                /\ last.res = WaitingForChoice(EnabledTargets(file, state, cursor))
       /\ KindAt(file, cursor) \notin {"Dialogue", "Hub"} => last.res = Advanced(cursor)

\* a Condition chain of two that ends on a Hub
C24_Witness ==
    /\ MovedByAdvance
    /\ KindAt(file, last.pre_cursor) = "Condition"
    /\ \E c \in {"C1", "C2", "C3"} : c # last.pre_cursor /\
          post_advance(file, c, last.pre_state, {last.pre_cursor}).cursor = cursor /\
          \E i \in 1..Len(ConnectionsOf(file, last.pre_cursor)) :
             ConnectionsOf(file, last.pre_cursor)[i].target = c
    /\ KindAt(file, cursor) \in {"Hub", "Dialogue", "DialogueFragment"}

\* the ids of the children of the hierarchy root whose kind is Flow
FlowRoots(f) ==
    IF f.hierarchy.children.has
    THEN {f.hierarchy.children.items[i].id : i \in
             {j \in 1..Len(f.hierarchy.children.items) :
                 f.hierarchy.children.items[j].kind = "Flow"}}
    ELSE {}

\* the parent pointers of the models lead from node `id` to `flow`
RECURSIVE LeadsTo(_, _, _)
LeadsTo(f, id, flow) ==
    \/ id = flow
    \/ has_model(f, id) /\ LeadsTo(f, find_model(f, id).parent, flow)

\* the ids from `flow` down to node `id` along the parent pointers
RECURSIVE RootPath(_, _, _)
RootPath(f, id, flow) ==
    IF id = flow THEN <<flow>>
    ELSE Append(RootPath(f, find_model(f, id).parent, flow), id)

\* the entries met by taking, from entry h, a child with each id of the path
RECURSIVE Reached(_, _)
Reached(h, path) ==
    IF path = <<>> THEN {h}
    ELSE IF ~h.children.has THEN {}
    ELSE UNION {Reached(h.children.items[i], Tail(path)) :
                   i \in {j \in 1..Len(h.children.items) :
                             h.children.items[j].id = Head(path)}}

\* the children of entry e whose kind is playable, in child order
PlayableOf(e) ==
    IF e.children.has
    THEN SelectSeq(e.children.items,
                   LAMBDA c : c.kind \in {"DialogueFragment", "Condition",
                                           "Hub", "FlowFragment"})
    ELSE <<>>

(***************************************************************************)
(* C25: the first playable child of a Dialogue is looked up along the path *)
(* of parent pointers from the hierarchy's Flow root down to the Dialogue, *)
(* descending the tree from the hierarchy root.  start on the Dialogue     *)
(* fails with NoMainFlow when the root has no Flow child, with NoHierarchy *)
(* when an id of the path has no entry at its step or when the entry       *)
(* reached has no child of kind DialogueFragment, Condition, Hub or        *)
(* FlowFragment; otherwise the cursor is the first such child.             *)
(***************************************************************************)
C25_PathDescent ==
    (/\ last.op = "start"
     /\ KindAt(file, last.arg) = "Dialogue"
     /\ \A flow \in FlowRoots(file) : LeadsTo(file, last.arg, flow))
    => /\ FlowRoots(file) = {} => last.res = Err("NoMainFlow")
       /\ \A flow \in FlowRoots(file) :
             LET reached == Reached(file.hierarchy, RootPath(file, last.arg, flow))
             IN  /\ reached = {} => last.res = Err("NoHierarchy")
                 /\ \A e \in reached :
                       IF PlayableOf(e) = <<>>
                       THEN last.res = Err("NoHierarchy")
                       ELSE last.res = Ok /\ cursor = Head(PlayableOf(e)).id

\* a path of three ids whose second step meets an entry without children
C25_Witness ==
    /\ last.op = "start"
    /\ KindAt(file, last.arg) = "Dialogue"
    /\ last.res = Err("NoHierarchy")
    /\ \E flow \in FlowRoots(file) :
          /\ LeadsTo(file, last.arg, flow)
          /\ Len(RootPath(file, last.arg, flow)) = 3
          /\ Reached(file.hierarchy, RootPath(file, last.arg, flow)) = {}
          /\ Reached(file.hierarchy, SubSeq(RootPath(file, last.arg, flow), 1, 2)) # {}

\* the Conditions of the package
ConditionsOf(f) ==
    {f.models[i].id : i \in {j \in 1..Len(f.models) : f.models[j].kind = "Condition"}}

\* the Conditions that a connection of node `id` leads to
ConditionTargets(f, id) ==
    IF has_model(f, id) /\ has_pins(find_model(f, id))
    THEN {t \in ConditionsOf(f) :
             \E i \in 1..Len(ConnectionsOf(f, id)) : ConnectionsOf(f, id)[i].target = t}
    ELSE {}

\* the Conditions reached from the nodes of `from` over one to n connections
\* that pass through Conditions only
RECURSIVE ConditionsWithin(_, _, _)
ConditionsWithin(f, from, n) ==
    IF n = 0 THEN {}
    ELSE LET next == UNION {ConditionTargets(f, id) : id \in from}
         IN  next \cup ConditionsWithin(f, next, n - 1)

\* Condition c lies on a cycle of the graph made of Conditions only
OnConditionCycle(f, c) ==
    c \in ConditionsWithin(f, {c}, Cardinality(ConditionsOf(f)))

\* a cycle made of Conditions only can be reached from node `id` over one
\* connection of `id` and then connections between Conditions
ConditionCycleAhead(f, id) ==
    \E c \in (IF id \in ConditionsOf(f) THEN {id} ELSE {}) \cup
             ConditionsWithin(f, {id}, Cardinality(ConditionsOf(f)) + 1) :
       OnConditionCycle(f, c)

\* the target the store selects at Condition c: the first connection of the
\* first output pin if the expression is true, of the last one otherwise
SelectedTarget(f, st, c) ==
    LET pins == find_model(f, c).output_pins
        value == eval_boolean_with_context(find_model(f, c).expression, st)
    IN  IF pins = <<>> THEN NoId
        ELSE LET pin == IF value = "true" THEN pins[1] ELSE pins[Len(pins)]
             IN  IF pin.connections = <<>> THEN NoId ELSE pin.connections[1].target

\* the node met from `id` after following selected targets through up to n
\* Conditions
RECURSIVE AfterConditions(_, _, _, _)
AfterConditions(f, st, id, n) ==
    IF n = 0 \/ KindAt(f, id) # "Condition" THEN id
    ELSE AfterConditions(f, st, SelectedTarget(f, st, id), n - 1)

\* the targets the store selects from Condition c never leave the Conditions
SelectionCycles(f, st, c) ==
    KindAt(f, AfterConditions(f, st, c, Cardinality(ConditionsOf(f)))) = "Condition"

(***************************************************************************)
(* C26 as stated: advance() ends (with an outcome or an error, or with the *)
(* abort of a kind that has no transition) whenever no cycle made of       *)
(* Conditions only lies ahead of the cursor, and never ends when the       *)
(* cursor is on a Condition of such a cycle.                               *)
(***************************************************************************)
C26_ConditionCycleNeverReturns ==
    last.op = "advance"
    => /\ ~ConditionCycleAhead(file, last.pre_cursor) => last.res # Diverge
       /\ (/\ KindAt(file, last.pre_cursor) = "Condition"
           /\ OnConditionCycle(file, last.pre_cursor)) => last.res = Diverge

(***************************************************************************)
(* C26 amended: advance() ends whenever no cycle made of Conditions only   *)
(* lies ahead of the cursor; with the cursor on a Condition it fails to    *)
(* end exactly when the targets the Variable Store selects, from that      *)
(* Condition on, never leave the Conditions; a call from another kind that *)
(* does not end went over one connection to such a Condition.              *)
(***************************************************************************)
C26_ReturnsUnlessSelectionCycles ==
    last.op = "advance"
    => /\ ~ConditionCycleAhead(file, last.pre_cursor) => last.res # Diverge
       /\ KindAt(file, last.pre_cursor) = "Condition"
             => (last.res = Diverge <=> SelectionCycles(file, state, last.pre_cursor))
       /\ (last.res = Diverge /\ KindAt(file, last.pre_cursor) # "Condition")
             => \E c \in ConditionTargets(file, last.pre_cursor) :
                   SelectionCycles(file, state, c)

\* a Condition on a cycle of Conditions that the store leads out of, and the
\* same kind of cycle followed without end
C26_Witness ==
    /\ AdvancedFrom("Condition")
    /\ OnConditionCycle(file, last.pre_cursor)
    /\ last.res = Diverge
    /\ SelectionCycles(file, state, last.pre_cursor)
    /\ state["flag"] = Undef

\* more calls of advance than there are pairs of a cursor and a store
RunBound(f) == Len(f.models) * Cardinality([Vars -> Values \cup {Undef}]) + 1

\* the cursor and the store after advance() has been called from (cur, st)
\* for as long as it returned Advanced, n times at most
RECURSIVE AfterAdvanced(_, _, _, _)
AfterAdvanced(f, cur, st, n) ==
    IF n = 0 \/ advance(f, cur, st, {}).res.kind # "Advanced"
    THEN [cursor |-> cur, state |-> st]
    ELSE AfterAdvanced(f, advance(f, cur, st, {}).cursor,
                       advance(f, cur, st, {}).state, n - 1)

\* where the Advanced outcomes from the cursor of the last call stop, if they do
RunEnd == AfterAdvanced(file, last.pre_cursor, last.pre_state, RunBound(file))

\* what advance() returns there
RunStop == advance(file, RunEnd.cursor, RunEnd.state, {})

(***************************************************************************)
(* C27: exhaust_maximally calls advance() while the outcome is Advanced.   *)
(* It ends whenever the Advanced outcomes from the cursor are finitely     *)
(* many; it returns Ok at the first outcome that is not Advanced, with the *)
(* cursor on a Dialogue, on a Hub, or on a DialogueFragment with more than *)
(* one enabled target, and it returns the first error advance() returns,   *)
(* the cursor and the store being those that call of advance() left.       *)
(***************************************************************************)
C27_ExhaustStopsAtFirstNonAdvanced ==
    last.op = "exhaust_maximally"
    => IF RunStop.res.kind = "Advanced"
       THEN last.res = Diverge
       ELSE /\ cursor = RunStop.cursor
            /\ state = RunStop.state
            /\ RunStop.res.kind \in {"WaitingForChoice", "EndOfDialogue"}
                  => /\ last.res = Ok
                     /\ \/ KindAt(file, cursor) \in {"Dialogue", "Hub"}
                        \/ /\ KindAt(file, cursor) = "DialogueFragment"
                           /\ Len(EnabledTargets(file, state, cursor)) > 1
            /\ RunStop.res.kind \notin {"WaitingForChoice", "EndOfDialogue"}
                  => last.res = RunStop.res
            /\ last.res = Ok => RunStop.res.kind \in {"WaitingForChoice", "EndOfDialogue"}

\* a run that starts on an Instruction, changes the store and stops on a
\* Dialogue or a Hub
C27_Witness ==
    /\ last.op = "exhaust_maximally"
    /\ last.res = Ok
    /\ KindAt(file, last.pre_cursor) = "Instruction"
    /\ state # last.pre_state
    /\ cursor # last.pre_cursor
    /\ KindAt(file, cursor) \in {"Dialogue", "Hub"}

(***************************************************************************)
(* C28: when advance() or choose() returns an error, the cursor and the    *)
(* Variable Store are what they were before the call.  Stated for a cursor *)
(* on a node whose connections all name a node and an input pin of it.     *)
(***************************************************************************)
C28_ErrorLeavesNoTrace ==
    (/\ last.op \in {"advance", "choose"}
     /\ last.res.kind = "Err"
     /\ last.pre_cursor # NoId => Intact(file, last.pre_cursor))
    => /\ cursor = last.pre_cursor
       /\ state = last.pre_state

(***************************************************************************)
(* C29: when start(id) returns an error, the cursor is what it was before  *)
(* the call; a start on a Dialogue or FlowFragment whose first playable    *)
(* child cannot be resolved does not leave the cursor on that container.   *)
(***************************************************************************)
C29_FailedStartKeepsCursor ==
    (last.op = "start" /\ last.res.kind = "Err") => cursor = last.pre_cursor

\* referential integrity of the file: every connection names a node of the
\* package, every parent pointer names a node or an entry of the hierarchy,
\* and every entry below the top entries of the hierarchy names a node
ReferentialIntegrity(f) ==
    /\ \A i \in 1..Len(f.models) :
          /\ has_pins(f.models[i]) =>
                \A k \in 1..Len(ConnectionsOf(f, f.models[i].id)) :
                   has_model(f, ConnectionsOf(f, f.models[i].id)[k].target)
          /\ has_model(f, f.models[i].parent) \/ HasEntry(f, f.models[i].parent)
    /\ f.hierarchy.children.has =>
          \A i \in 1..Len(f.hierarchy.children.items) :
             \A e \in Entries(f.hierarchy.children.items[i]) \
                         {f.hierarchy.children.items[i]} : has_model(f, e.id)

(***************************************************************************)
(* C30: on a file with referential integrity the cursor is, after every    *)
(* sequence of calls, unset or the id of a node of the default package,    *)
(* and getCurrentNode never fails with NoModel: a cursor that names no     *)
(* node, or a NoModel from getCurrentNode, is met only on a file without   *)
(* referential integrity.                                                  *)
(***************************************************************************)
C30_CursorNamesANode ==
    (\/ cursor # NoId /\ ~has_model(file, cursor)
     \/ last.op = "get_current_model" /\ last.res = Err("NoModel"))
    => ~ReferentialIntegrity(file)

\* getCurrentNode on a node that only advance and choose lead to
C30_Witness ==
    /\ ReferentialIntegrity(file)
    /\ last.op = "get_current_model"
    /\ last.res = OkModel(cursor)
    /\ cursor \in {"F2", "F3", "C2", "C3"}
    /\ ConnectionsOf(file, "F1") # <<>>

\* the last call, an advance() or a choose(id), took the cursor off an Instruction
LeftInstruction ==
    /\ last.op \in {"advance", "choose"}
    /\ KindAt(file, last.pre_cursor) = "Instruction"
    /\ cursor # last.pre_cursor

(***************************************************************************)
(* C31: a call of advance() or choose(id) that moves the cursor off an     *)
(* Instruction has executed the Instruction's statement: the Variable      *)
(* Store after the call is the store the statement leaves.                 *)
(***************************************************************************)
C31_InstructionExecutedOnLeaving ==
    LeftInstruction
    => state = eval_with_context_mut(find_model(file, last.pre_cursor).expression,
                                     last.pre_state)

(***************************************************************************)
(* C32: with the cursor unset, advance(), getCurrentNode() and             *)
(* getAvailableConnections() fail with NoCursor, choose(id) fails with     *)
(* NoOutputConnected for every id, and each of these calls leaves the      *)
(* cursor unset and the Variable Store as it was.                          *)
(***************************************************************************)
C32_NothingBeforeStart ==
    (/\ last.pre_cursor = NoId
     /\ last.op \in {"advance", "get_current_model", "get_available_connections", "choose"})
    => /\ last.op # "choose" => last.res = Err("NoCursor")
       /\ last.op = "choose" => last.res = Err("NoOutputConnected")
       /\ cursor = NoId
       /\ state = last.pre_state

\* choose on an interpreter whose store has been set and whose cursor is unset
C32_Witness ==
    /\ last.op = "choose"
    /\ last.pre_cursor = NoId
    /\ last.res = Err("NoOutputConnected")
    /\ cursor = NoId
    /\ state["flag"] \in Values

====
